---- MODULE Spec2Model ----
(***************************************************************************)
(* llamacpp-slot-manager (src/index.js): the slot pool kept in             *)
(* extensionSettings.slots / extensionSettings.slotsUsage, the operations  *)
(* initializeSlots, acquireSlot, releaseSlot, releaseSlots, and the event  *)
(* and click handlers that drive them.                                     *)
(*                                                                         *)
(* JavaScript values are records [t, s, n]: t is the typeof-like tag, s    *)
(* the string payload, n the numeric payload.  A JavaScript array is a     *)
(* record [length, props]: props maps the property keys that exist to      *)
(* their values.  A key of 0..length-1 that is missing from props is a     *)
(* hole; the key -1 is the ordinary (non-index) property "-1".             *)
(***************************************************************************)
EXTENDS Integers, FiniteSets, Sequences, TLC

\* ---------------------------------------------------------------- bounds
\* Largest totalSlots passed to initializeSlots.
MaxSlots == 2
\* Largest reading of the clock behind new Date(); the clock starts at 0.
MaxTime == 1

\* ------------------------------------------------------ program constants
\* initializeSlots(totalSlots = 2)
DefaultTotalSlots == 2

\* ------------------------------------------------------ JavaScript values
Undefined == [t |-> "undefined", s |-> "", n |-> 0]
Null == [t |-> "null", s |-> "", n |-> 0]
Infinity == [t |-> "number", s |-> "Infinity", n |-> 0]
Str(s) == [t |-> "string", s |-> s, n |-> 0]
Num(n) == [t |-> "number", s |-> "", n |-> n]
Date(n) == [t |-> "date", s |-> "", n |-> n]

\* Character names carried by the generation event; "" is the empty name,
\* which the code treats as any other string.
Names == {"a", "b", ""}
\* data.char: a name, or undefined when the event carries no character.
CacheKeys == {Str(s) : s \in Names} \cup {Undefined}

\* Variant of JsLess: x <= y, which lets a later slot with an equal
\* timestamp replace the least recent one found so far.
JsLessOrEqual(x, y) ==
    IF x.t # "date" THEN FALSE
    ELSE IF y.t = "number" /\ y.s = "Infinity" THEN TRUE
    ELSE IF y.t = "date" THEN x.n <= y.n
    ELSE FALSE

\* x < y as acquireSlot uses it: x is an element of slotsUsage, y is
\* leastRecentDate (Infinity, or a Date taken from slotsUsage).  A Date
\* converts to its time value, undefined converts to NaN and every
\* comparison with NaN is false.
JsLess(x, y) ==
    IF x.t # "date" THEN FALSE
    ELSE IF y = Infinity THEN TRUE
    ELSE IF y.t = "date" THEN x.n < y.n
    ELSE FALSE

\* ------------------------------------------------------ JavaScript arrays
\* []
EmptyArray == [length |-> 0, props |-> [i \in {} |-> Undefined]]

\* a[i]: a missing property reads as undefined.
ArrayGet(a, i) == IF i \in DOMAIN a.props THEN a.props[i] ELSE Undefined

\* Variant of ArraySet: v is written from index i to the end of the array
\* (a.fill(v, i) instead of a[i] = v).
ArraySetFill(a, i, v) ==
    [length |-> IF i >= a.length THEN i + 1 ELSE a.length,
     props |-> [j \in DOMAIN a.props \cup {i} \cup {k \in 0 .. a.length - 1 : k >= i} |->
                  IF j >= i THEN v ELSE a.props[j]]]

\* a[i] = v: an index at or past length extends the array; -1 is no index.
ArraySet(a, i, v) ==
    [length |-> IF i >= a.length THEN i + 1 ELSE a.length,
     props |-> [j \in DOMAIN a.props \cup {i} |-> IF j = i THEN v ELSE a.props[j]]]

\* Variant of ArrayDelete: an element of the array is removed with the
\* elements after it moving down one place, so the array gets shorter.
ArrayDeleteSplice(a, i) ==
    IF i \notin 0 .. a.length - 1 THEN a
    ELSE [length |-> a.length - 1,
          props |-> [j \in {k \in DOMAIN a.props : k < i}
                            \cup {k - 1 : k \in {m \in DOMAIN a.props : m > i}} |->
                        IF j < i THEN a.props[j] ELSE a.props[j + 1]]]

\* delete a[i]: removes the property, length stays.
ArrayDelete(a, i) ==
    [length |-> a.length,
     props |-> [j \in DOMAIN a.props \ {i} |-> a.props[j]]]

\* Variant of ArraySetLength: only the length changes, the elements past it
\* are kept (a capacity field beside the array instead of a truncation).
ArraySetLengthKeep(a, n) == [length |-> n, props |-> a.props]

\* a.length = n: index properties at or past n are removed, growth adds
\* holes, non-index properties stay.
ArraySetLength(a, n) ==
    [length |-> n,
     props |-> [j \in {x \in DOMAIN a.props : x < n} |-> a.props[j]]]

\* a.fill(v): every index 0..length-1 becomes an own property with value v.
ArrayFill(a, v) ==
    [length |-> a.length,
     props |-> [j \in DOMAIN a.props \cup (0 .. a.length - 1) |->
                  IF j \in 0 .. a.length - 1 THEN v ELSE a.props[j]]]

\* a.findIndex(x => x === v): lowest index in 0..length-1 whose element
\* (holes read as undefined) is v, else -1.
RECURSIVE FindIndexFrom(_, _, _)
FindIndexFrom(a, v, i) ==
    IF i >= a.length THEN -1
    ELSE IF ArrayGet(a, i) = v THEN i
    ELSE FindIndexFrom(a, v, i + 1)

FindIndex(a, v) == FindIndexFrom(a, v, 0)

\* Object.values(a) / Object.entries(a): the own properties, holes left out,
\* the property "-1" included.
ObjectKeys(a) == DOMAIN a.props

\* ------------------------------------------------------------------ state
VARIABLES
    extensionSettings, \* the settings object: a function from the property
                       \* names that exist ("slots", "slotsUsage") to arrays
    now,               \* the latest reading of the clock taken by new Date()
    currentSlot,       \* let currentSlot of the event block
    acquiredKey,       \* data.char of the latest event whose acquireSlot returned
    params,            \* the params object of the settings-ready event just
                       \* handled: [id_slot |-> value]; << >> when the last
                       \* event was another one
    dom,               \* #slot_manager_slots_used, #slot_manager_slots_available
                       \* and the rendered character list
    saveRequested,     \* saveSettingsDebounced() has been called
    last               \* the last operation: its arguments, result and the
                       \* settings it started from

vars == <<extensionSettings, now, currentSlot, acquiredKey, params, dom, saveRequested, last>>

HasSlots(es) == "slots" \in DOMAIN es /\ "slotsUsage" \in DOMAIN es

\* ------------------------------------------------------- display helpers
\* updateSlotsAvailability: the number of values of slots that are strings.
usedSlots(slots) ==
    Cardinality({j \in ObjectKeys(slots) : slots.props[j].t = "string"})

\* updateCharacterList: one entry per property of slots holding a string.
updateCharacterList(es) ==
    {[slot |-> j, name |-> es.slots.props[j].s] :
        j \in {x \in ObjectKeys(es.slots) : es.slots.props[x].t = "string"}}

\* The trailing calls of every mutating function: updateSlotsAvailability
\* writes usedSlots and slots.length, updateCharacterList the list.
Render(es) ==
    [used |-> Num(usedSlots(es.slots)),
     available |-> Num(es.slots.length),
     characterList |-> updateCharacterList(es)]

\* ------------------------------------------------------------ operations
\* initializeSlots(totalSlots): ||= [] on both arrays, then both lengths.
initializeSlots(es, totalSlots) ==
    LET s0 == IF "slots" \in DOMAIN es THEN es.slots ELSE EmptyArray
        u0 == IF "slotsUsage" \in DOMAIN es THEN es.slotsUsage ELSE EmptyArray
    IN [slots |-> ArraySetLength(s0, totalSlots),
        slotsUsage |-> ArraySetLength(u0, totalSlots)]

\* Variant of allocateSlot: the timestamp is written only when the slot
\* changes hands, a reuse keeps the old one.
allocateSlotNoRestamp(es, index, cacheKey, t) ==
    [slots |-> [length |-> IF index >= es.slots.length THEN index + 1
                           ELSE es.slots.length,
                props |-> [j \in DOMAIN es.slots.props \cup {index} |->
                             IF j = index THEN cacheKey ELSE es.slots.props[j]]],
     slotsUsage |->
        IF index \in DOMAIN es.slots.props /\ es.slots.props[index] = cacheKey
        THEN es.slotsUsage
        ELSE [length |-> IF index >= es.slotsUsage.length THEN index + 1
                         ELSE es.slotsUsage.length,
              props |-> [j \in DOMAIN es.slotsUsage.props \cup {index} |->
                           IF j = index THEN [t |-> "date", s |-> "", n |-> t]
                           ELSE es.slotsUsage.props[j]]]]

\* allocateSlot(index): slots[index] = cacheKey; slotsUsage[index] = new Date().
allocateSlot(es, index, cacheKey, t) ==
    [slots |-> ArraySet(es.slots, index, cacheKey),
     slotsUsage |-> ArraySet(es.slotsUsage, index, Date(t))]

\* findLeastRecentSlotIndex: forEach over slotsUsage (holes are skipped),
\* keeping the first element strictly less than the least seen so far.
RECURSIVE LeastRecentFrom(_, _, _, _)
LeastRecentFrom(usage, i, leastRecentDate, leastRecentIndex) ==
    IF i >= usage.length THEN leastRecentIndex
    ELSE IF i \in DOMAIN usage.props /\ JsLess(usage.props[i], leastRecentDate)
         THEN LeastRecentFrom(usage, i + 1, usage.props[i], i)
         ELSE LeastRecentFrom(usage, i + 1, leastRecentDate, leastRecentIndex)

findLeastRecentSlotIndex(usage) == LeastRecentFrom(usage, 0, Infinity, -1)

\* Variant of existingIndex: the search for the key never succeeds.
existingIndexNever(slots, cacheKey) == -1

\* slots.findIndex(key => key === cacheKey)
existingIndex(slots, cacheKey) == FindIndex(slots, cacheKey)

\* Variant of firstAvailableIndex: the highest empty index (findLastIndex).
firstAvailableIndexLast(slots) ==
    IF \E i \in 0 .. slots.length - 1 : ArrayGet(slots, i) = Undefined
    THEN CHOOSE i \in 0 .. slots.length - 1 :
            /\ ArrayGet(slots, i) = Undefined
            /\ \A j \in 0 .. slots.length - 1 :
                  ArrayGet(slots, j) = Undefined => j <= i
    ELSE -1

\* slots.findIndex(key => key === undefined)
firstAvailableIndex(slots) == FindIndex(slots, Undefined)

\* Variant of acquireIndex: the first available slot is tried before the
\* slot that already holds the key.
acquireIndexAvailableFirst(es, cacheKey) ==
    IF FindIndex(es.slots, Undefined) # -1
        THEN FindIndex(es.slots, Undefined)
    ELSE IF FindIndex(es.slots, cacheKey) # -1
        THEN FindIndex(es.slots, cacheKey)
    ELSE LeastRecentFrom(es.slotsUsage, 0, Infinity, -1)

\* The index acquireSlot hands to allocateSlot, which is also its result.
acquireIndex(es, cacheKey) ==
    IF existingIndex(es.slots, cacheKey) # -1
        THEN existingIndex(es.slots, cacheKey)
    ELSE IF firstAvailableIndex(es.slots) # -1
        THEN firstAvailableIndex(es.slots)
    ELSE findLeastRecentSlotIndex(es.slotsUsage)

\* acquireSlot(cacheKey): the settings after the call.
acquireSlot(es, cacheKey, t) ==
    allocateSlot(es, acquireIndex(es, cacheKey), cacheKey, t)

\* releaseSlot(index): delete both entries.
releaseSlot(es, index) ==
    [slots |-> ArrayDelete(es.slots, index),
     slotsUsage |-> ArrayDelete(es.slotsUsage, index)]

\* releaseSlots(): fill(undefined) on both arrays.
releaseSlots(es) ==
    [slots |-> ArrayFill(es.slots, Undefined),
     slotsUsage |-> ArrayFill(es.slotsUsage, Undefined)]

\* --------------------------------------------------------------- history
\* The last handler run.  op: the function it called; key / index: the
\* argument; ret: what the call returned; err: the exception it threw (""
\* for none); was: what the slot acquireSlot selected held before the call;
\* length: slots.length before initializeSlots ran (0 when slots was absent).
SlotAt(es, i) ==
    [occupant |-> ArrayGet(es.slots, i), lastUsed |-> ArrayGet(es.slotsUsage, i)]

NoSlot == [occupant |-> Undefined, lastUsed |-> Undefined]

NoOp ==
    [op |-> "none", key |-> Undefined, index |-> Undefined, ret |-> Undefined,
     err |-> "", was |-> NoSlot, length |-> Undefined]

Record(op, key, index, ret, err, was) ==
    [op |-> op, key |-> key, index |-> index, ret |-> ret, err |-> err, was |-> was,
     length |-> Undefined]

\* ------------------------------------------------------------------ Init
\* The module has been loaded on a fresh install: extension_settings holds
\* no entry, so extensionSettings is {}; the handlers are registered.
Init ==
    /\ extensionSettings = << >>
    /\ now = 0
    /\ currentSlot = Null
    /\ acquiredKey = Undefined
    /\ params = << >>
    /\ dom = [used |-> Undefined, available |-> Undefined, characterList |-> {}]
    /\ saveRequested = FALSE
    /\ last = NoOp

\* --------------------------------------------------------------- actions
\* Body shared by every caller of initializeSlots.
DoInitializeSlots(totalSlots) ==
    /\ extensionSettings' = initializeSlots(extensionSettings, totalSlots)
    /\ saveRequested' = TRUE
    /\ dom' = Render(extensionSettings')
    /\ params' = << >>
    /\ last' = [Record("initializeSlots", Undefined, Num(totalSlots), Undefined, "",
                        NoSlot)
                 EXCEPT !.length = IF "slots" \in DOMAIN extensionSettings
                                   THEN Num(extensionSettings.slots.length)
                                   ELSE Num(0)]
    /\ UNCHANGED <<now, currentSlot, acquiredKey>>

\* eventSource.on(APP_READY, () => initializeSlots())
AppReady == DoInitializeSlots(DefaultTotalSlots)

\* click on .slot_manager_update_count: initializeSlots()
ClickUpdateCount == DoInitializeSlots(DefaultTotalSlots)

\* initializeSlots(totalSlots) called with an explicit count.
InitializeSlots == \E n \in 0 .. MaxSlots : DoInitializeSlots(n)

\* A call on a settings object without slots arrays throws a TypeError at
\* its first statement and changes nothing.
Throws(op, key, index) ==
    /\ ~HasSlots(extensionSettings)
    /\ params' = << >>
    /\ last' = Record(op, key, index, Undefined, "TypeError", NoSlot)
    /\ UNCHANGED <<extensionSettings, now, currentSlot, acquiredKey, dom, saveRequested>>

\* eventSource.on(GENERATE_BEFORE_COMBINE_PROMPTS, data =>
\*     currentSlot = acquireSlot(data.char))
\* new Date() reads the clock: t is the latest reading again (the same
\* millisecond) or a later one.
GenerateBeforeCombinePrompts ==
    \E char \in CacheKeys :
        \/ Throws("acquireSlot", char, Undefined)
        \/ \E t \in now .. MaxTime :
            LET index == acquireIndex(extensionSettings, char) IN
            /\ HasSlots(extensionSettings)
            /\ now' = t
            /\ extensionSettings' = acquireSlot(extensionSettings, char, t)
            /\ saveRequested' = TRUE
            /\ dom' = Render(extensionSettings')
            /\ currentSlot' = Num(index)
            /\ acquiredKey' = char
            /\ params' = << >>
            /\ last' = Record("acquireSlot", char, Undefined, Num(index), "",
                              SlotAt(extensionSettings, index))

\* eventSource.on(TEXT_COMPLETION_SETTINGS_READY, params =>
\*     params["id_slot"] = currentSlot)
TextCompletionSettingsReady ==
    /\ params' = [id_slot |-> currentSlot]
    /\ last' = [NoOp EXCEPT !.op = "settingsReady"]
    /\ UNCHANGED <<extensionSettings, now, currentSlot, acquiredKey, dom, saveRequested>>

\* Body shared by every caller of releaseSlot.
DoReleaseSlot(index) ==
    \/ Throws("releaseSlot", Undefined, Num(index))
    \/ /\ HasSlots(extensionSettings)
       /\ extensionSettings' = releaseSlot(extensionSettings, index)
       /\ saveRequested' = TRUE
       /\ dom' = Render(extensionSettings')
       /\ params' = << >>
       /\ last' = Record("releaseSlot", Undefined, Num(index), Undefined, "", NoSlot)
       /\ UNCHANGED <<now, currentSlot, acquiredKey>>

\* click on a .slot_manager_release button of the rendered character list:
\* releaseSlot(Number(event.currentTarget.dataset.slot))
ClickRelease == \E e \in dom.characterList : DoReleaseSlot(e.slot)

\* releaseSlot(index) called with any index.
ReleaseSlot == \E index \in -1 .. MaxSlots : DoReleaseSlot(index)

\* click on .slot_manager_release_all: releaseSlots()
ClickReleaseAll ==
    \/ Throws("releaseSlots", Undefined, Undefined)
    \/ /\ HasSlots(extensionSettings)
       /\ extensionSettings' = releaseSlots(extensionSettings)
       /\ saveRequested' = TRUE
       /\ dom' = Render(extensionSettings')
       /\ params' = << >>
       /\ last' = Record("releaseSlots", Undefined, Undefined, Undefined, "", NoSlot)
       /\ UNCHANGED <<now, currentSlot, acquiredKey>>

Next ==
    \/ AppReady
    \/ ClickUpdateCount
    \/ InitializeSlots
    \/ GenerateBeforeCombinePrompts
    \/ TextCompletionSettingsReady
    \/ ClickRelease
    \/ ReleaseSlot
    \/ ClickReleaseAll

Spec == Init /\ [][Next]_vars

\* ------------------------------------------------- vocabulary of the claims
\* capacity, occupants[i] and lastUsed[i] of the pool held in settings es.
Capacity(es) == es.slots.length
Indices(es) == 0 .. Capacity(es) - 1
Occupant(es, i) == ArrayGet(es.slots, i)
LastUsed(es, i) == ArrayGet(es.slotsUsage, i)

\* The slots holding key k, the empty slots, the least element of a set.
HoldersOf(es, k) == {i \in Indices(es) : Occupant(es, i) = k}
EmptySlots(es) == {i \in Indices(es) : Occupant(es, i) = Undefined}
Least(S) == CHOOSE i \in S : \A j \in S : i <= j

\* The pool as its readers see it: capacity and what every index reads.
SameSlot(es1, es2, i) ==
    /\ Occupant(es1, i) = Occupant(es2, i)
    /\ LastUsed(es1, i) = LastUsed(es2, i)
SamePool(es1, es2) ==
    /\ Capacity(es1) = Capacity(es2)
    /\ es1.slotsUsage.length = es2.slotsUsage.length
    /\ \A i \in Indices(es1) : SameSlot(es1, es2, i)

\* A step that calls op on an initialized pool: extensionSettings is the
\* pool before the call, extensionSettings' the pool after it.
CallStep(op) == last'.op = op /\ HasSlots(extensionSettings)
\* A step in which acquireSlot(last'.key) returns last'.ret.
AcquireStep == CallStep("acquireSlot") /\ last'.err = ""
\* An acquire step that takes the slot of another key: the key occupies no
\* slot, no slot is empty and the result is a slot of the pool.
EvictStep ==
    /\ AcquireStep
    /\ HoldersOf(extensionSettings, last'.key) = {}
    /\ EmptySlots(extensionSettings) = {}
    /\ last'.ret.n \in Indices(extensionSettings)

\* The state after acquireSlot returned; after it replaced another key.
Acquired == last.op = "acquireSlot" /\ last.err = ""
Evicted ==
    /\ Acquired
    /\ last.ret.n \in Indices(extensionSettings)
    /\ last.was.occupant.t = "string"
    /\ last.was.occupant # last.key

\* ------------------------------------------------------------------- C1
\* C1: no key occupies more than one slot: two distinct indices below the
\* capacity never hold the same non-empty key.
C1_NoDuplicateKeys ==
    HasSlots(extensionSettings) =>
        \A i, j \in Indices(extensionSettings) :
            (i # j /\ Occupant(extensionSettings, i) # Undefined)
                => Occupant(extensionSettings, i) # Occupant(extensionSettings, j)

\* A key acquired again while another key sits in the other slot.
C1_Witness ==
    /\ Acquired
    /\ last.key.t = "string"
    /\ last.was.occupant = last.key
    /\ Capacity(extensionSettings) = 2
    /\ \A i \in Indices(extensionSettings) : Occupant(extensionSettings, i).t = "string"

\* ------------------------------------------------------------------- C2
\* C2 (as claimed): the used-slot count shown by updateSlotsAvailability is
\* at most the capacity, in every reachable state and for every capacity.
C2_UsedAtMostCapacity ==
    HasSlots(extensionSettings) =>
        /\ usedSlots(extensionSettings.slots) <= Capacity(extensionSettings)
        /\ dom.used.n <= dom.available.n

\* ------------------------------------------------------------------- C3
\* C3: if key k already occupies slot i, acquire(k) returns i, leaves every
\* slot's occupant (slot i's included) and every other slot's timestamp as
\* they were, also when a lower-numbered slot is empty; a second acquire(k)
\* right after it returns the same index.
C3_ReuseFirst ==
    [][(AcquireStep /\ last'.key.t = "string"
            /\ HoldersOf(extensionSettings, last'.key) # {}) =>
        LET i == Least(HoldersOf(extensionSettings, last'.key)) IN
        /\ last'.ret = Num(i)
        /\ Capacity(extensionSettings') = Capacity(extensionSettings)
        /\ \A j \in Indices(extensionSettings) :
              Occupant(extensionSettings', j) = Occupant(extensionSettings, j)
        /\ \A j \in Indices(extensionSettings) \ {i} :
              SameSlot(extensionSettings', extensionSettings, j)
        /\ acquireIndex(extensionSettings', last'.key) = i]_vars

\* A reuse of slot 1 while slot 0 is empty.
C3_Witness ==
    /\ Acquired
    /\ last.key.t = "string"
    /\ last.was.occupant = last.key
    /\ last.ret = Num(1)
    /\ Occupant(extensionSettings, 0) = Undefined
    /\ Occupant(extensionSettings, 1) = last.key

\* ------------------------------------------------------------------- C4
\* C4: when key k occupies no slot and some slot is empty, acquire(k)
\* returns the lowest empty index, puts k there and leaves every other slot
\* as it was, so no occupant is evicted.
C4_FirstFit ==
    [][(AcquireStep /\ last'.key.t = "string"
            /\ HoldersOf(extensionSettings, last'.key) = {}
            /\ EmptySlots(extensionSettings) # {}) =>
        LET i == Least(EmptySlots(extensionSettings)) IN
        /\ last'.ret = Num(i)
        /\ Occupant(extensionSettings', i) = last'.key
        /\ Capacity(extensionSettings') = Capacity(extensionSettings)
        /\ \A j \in Indices(extensionSettings) \ {i} :
              SameSlot(extensionSettings', extensionSettings, j)]_vars

\* Both slots were empty and the lower one was taken.
C4_Witness ==
    /\ Acquired
    /\ last.key.t = "string"
    /\ last.was.occupant = Undefined
    /\ last.ret = Num(0)
    /\ Capacity(extensionSettings) = 2
    /\ Occupant(extensionSettings, 0) = last.key
    /\ Occupant(extensionSettings, 1) = Undefined

\* ------------------------------------------------------------------- C5
\* C5: when the capacity is positive, key k occupies no slot and no slot is
\* empty, acquire(k) selects the lowest index among those whose lastUsed
\* timestamp is the smallest, and k replaces the occupant of that index.
C5_LeastRecentlyUsed ==
    [][(AcquireStep /\ Capacity(extensionSettings) > 0
            /\ HoldersOf(extensionSettings, last'.key) = {}
            /\ EmptySlots(extensionSettings) = {}) =>
        /\ \A j \in Indices(extensionSettings) : LastUsed(extensionSettings, j).t = "date"
        /\ LET oldest == {i \in Indices(extensionSettings) :
                            \A j \in Indices(extensionSettings) :
                                LastUsed(extensionSettings, i).n
                                    <= LastUsed(extensionSettings, j).n}
           IN /\ last'.ret = Num(Least(oldest))
              /\ Occupant(extensionSettings', Least(oldest)) = last'.key]_vars

\* Both slots carried the same timestamp and slot 0 was the one replaced.
C5_WitnessTie ==
    /\ Evicted
    /\ Capacity(extensionSettings) = 2
    /\ last.ret = Num(0)
    /\ last.was.lastUsed = LastUsed(extensionSettings, 1)
    /\ Occupant(extensionSettings, 0) = last.key

\* ------------------------------------------------------------------- C6
\* C6 (as claimed): whenever an acquire evicts an occupant, the evicted slot
\* is not the slot selected by the acquire before it (currentSlot holds the
\* result of that acquire).
C6_NeverEvictsLatest ==
    [][(EvictStep /\ currentSlot.t = "number") => last'.ret # currentSlot]_vars

\* C6 (amended): every acquire, a reuse included, stamps the selected slot
\* with the current time; an acquire that evicts takes a slot whose
\* timestamp no other slot undercuts, so the slot selected by the acquire
\* before it is evicted only when no other slot has an older timestamp; and
\* with capacity 2 and occupants [a, b], a stamped later than b, acquiring
\* a third key returns 1 and leaves [a, third key].
C6_EvictsLatestOnlyOnTie ==
    [][/\ (AcquireStep /\ last'.ret.n \in Indices(extensionSettings)) =>
            LastUsed(extensionSettings', last'.ret.n) = Date(now')
       /\ EvictStep =>
            \A j \in Indices(extensionSettings) :
                /\ LastUsed(extensionSettings, last'.ret.n).n
                      <= LastUsed(extensionSettings, j).n
                /\ (last'.ret = currentSlot /\ j # last'.ret.n) =>
                      LastUsed(extensionSettings, j)
                          = LastUsed(extensionSettings, last'.ret.n)
       /\ (EvictStep /\ Capacity(extensionSettings) = 2
            /\ LastUsed(extensionSettings, 0).n > LastUsed(extensionSettings, 1).n) =>
            /\ last'.ret = Num(1)
            /\ Occupant(extensionSettings', 0) = Occupant(extensionSettings, 0)
            /\ Occupant(extensionSettings', 1) = last'.key]_vars

\* Slot 0 (a) was stamped later than slot 1 (b), and the new key took slot 1.
C6_Witness ==
    /\ Evicted
    /\ Capacity(extensionSettings) = 2
    /\ last.key.t = "string"
    /\ last.was.occupant = Str("b")
    /\ last.was.lastUsed.n < LastUsed(extensionSettings, 0).n
    /\ last.ret = Num(1)
    /\ Occupant(extensionSettings, 0) = Str("a")
    /\ Occupant(extensionSettings, 1) = last.key

\* ------------------------------------------------------------------- C7
\* C7 (as claimed): acquire on a pool of capacity 0 fails with an error,
\* returns no index and leaves the slot containers as they were.
C7_ZeroCapacityFails ==
    [][(CallStep("acquireSlot") /\ Capacity(extensionSettings) = 0) =>
        /\ last'.err # ""
        /\ last'.ret = Undefined
        /\ extensionSettings' = extensionSettings]_vars

\* ------------------------------------------------------------------- C8
\* C8 (as claimed): acquire with an absent or empty key fails with an error
\* and changes no slot's occupant or timestamp.
C8_EmptyKeyFails ==
    [][(CallStep("acquireSlot") /\ last'.key \in {Undefined, Str("")}) =>
        /\ last'.err # ""
        /\ SamePool(extensionSettings', extensionSettings)]_vars

\* ------------------------------------------------------------------- C9
\* C9 (as claimed): release(index) with index outside [0, capacity) fails
\* with an error and leaves occupants, lastUsed and capacity as they were.
C9_OutOfRangeReleaseFails ==
    [][(CallStep("releaseSlot") /\ last'.index.n \notin Indices(extensionSettings)) =>
        /\ last'.err # ""
        /\ SamePool(extensionSettings', extensionSettings)]_vars

\* ------------------------------------------------------------------ C10
\* C10 (as claimed): release(i) with 0 <= i < capacity raises no error,
\* leaves slot i empty with no timestamp and every other slot and the
\* capacity as they were; on a slot that is already empty it leaves the
\* pool as it was; a second release(i) changes nothing more.
C10_ReleaseIdempotent ==
    [][(CallStep("releaseSlot") /\ last'.index.n \in Indices(extensionSettings)) =>
        LET i == last'.index.n IN
        /\ last'.err = ""
        /\ Occupant(extensionSettings', i) = Undefined
        /\ LastUsed(extensionSettings', i) = Undefined
        /\ Capacity(extensionSettings') = Capacity(extensionSettings)
        /\ \A j \in Indices(extensionSettings) \ {i} :
              SameSlot(extensionSettings', extensionSettings, j)
        /\ (Occupant(extensionSettings, i) = Undefined
              => SamePool(extensionSettings', extensionSettings))
        /\ releaseSlot(extensionSettings', i) = extensionSettings']_vars

\* ------------------------------------------------------------------ C11
\* The capacity a resize starts from: 0 while the arrays do not exist.
OldCapacity == IF HasSlots(extensionSettings) THEN Capacity(extensionSettings) ELSE 0
InitializeStep == last'.op = "initializeSlots"

\* C11: resize(n) sets the capacity to n; every index below both the old
\* capacity and n keeps its occupant and timestamp; every index from the old
\* capacity up to n reads empty with no timestamp (so what a shrink dropped
\* does not come back when the pool grows); nothing is kept at or past n.
C11_ResizePreservesPrefix ==
    [][InitializeStep =>
        /\ Capacity(extensionSettings') = last'.index.n
        /\ extensionSettings'.slotsUsage.length = last'.index.n
        /\ \A i \in 0 .. last'.index.n - 1 :
              IF i < OldCapacity
              THEN SameSlot(extensionSettings', extensionSettings, i)
              ELSE /\ Occupant(extensionSettings', i) = Undefined
                   /\ LastUsed(extensionSettings', i) = Undefined
        /\ \A j \in DOMAIN extensionSettings'.slots.props
                       \cup DOMAIN extensionSettings'.slotsUsage.props :
              j < last'.index.n]_vars

\* A pool of capacity 1 holding a key has grown to capacity 2.
C11_Witness ==
    /\ last.op = "initializeSlots"
    /\ last.length = Num(1)
    /\ last.index = Num(2)
    /\ Occupant(extensionSettings, 0).t = "string"
    /\ LastUsed(extensionSettings, 0).t = "date"
    /\ Occupant(extensionSettings, 1) = Undefined

\* ------------------------------------------------------------------ C12
\* releaseSlot applied to every index from i up to the capacity, in turn.
RECURSIVE ReleaseEachFrom(_, _)
ReleaseEachFrom(es, i) ==
    IF i >= es.slots.length THEN es ELSE ReleaseEachFrom(releaseSlot(es, i), i + 1)

\* C12: releaseAll leaves every slot empty with no timestamp, the used count
\* (computed and displayed) 0 and the capacity unchanged, and the pool it
\* leaves reads the same as after release(i) for every i below the capacity.
C12_ReleaseAllEmptiesPool ==
    [][CallStep("releaseSlots") =>
        /\ Capacity(extensionSettings') = Capacity(extensionSettings)
        /\ \A i \in Indices(extensionSettings') :
              /\ Occupant(extensionSettings', i) = Undefined
              /\ LastUsed(extensionSettings', i) = Undefined
        /\ usedSlots(extensionSettings'.slots) = 0
        /\ dom'.used = Num(0)
        /\ SamePool(extensionSettings', ReleaseEachFrom(extensionSettings, 0))
        /\ usedSlots(ReleaseEachFrom(extensionSettings, 0).slots) = 0]_vars

\* ------------------------------------------------------------------ C13
\* The slots of the pool that hold a key.
OccupiedSlots(es) == {i \in Indices(es) : Occupant(es, i) # Undefined}

\* C13: once the usage display has been rendered, the used count it shows is
\* the number of occupied slots, the available count it shows is the capacity
\* minus the used count, and so the two add up to the capacity.
C13_UsedPlusAvailableIsCapacity ==
    (HasSlots(extensionSettings) /\ dom.used # Undefined) =>
        /\ usedSlots(extensionSettings.slots)
              = Cardinality(OccupiedSlots(extensionSettings))
        /\ dom.used = Num(Cardinality(OccupiedSlots(extensionSettings)))
        /\ dom.available = Num(Capacity(extensionSettings) - dom.used.n)
        /\ dom.used.n + dom.available.n = Capacity(extensionSettings)

\* ------------------------------------------------------------------ C14
\* A step in which the settings-ready handler writes params.id_slot.
SettingsReadyStep == last'.op = "settingsReady"

\* C14: the value the settings-ready event writes into id_slot is the slot
\* index returned by the most recent acquire of a before-processing event:
\* the remembered index changes only in a step in which acquire returns, and
\* then to the index returned, and at every write it is a number already,
\* never the initial null.
C14_IdSlotIsLastAcquired ==
    [][/\ SettingsReadyStep =>
              /\ params'.id_slot = currentSlot
              /\ currentSlot.t = "number"
       /\ currentSlot' # currentSlot =>
              /\ last'.op = "acquireSlot" /\ last'.err = ""
              /\ currentSlot' = last'.ret]_vars

\* ------------------------------------------------------------------ C15
\* C15: a resize to n leaves both arrays with length exactly n, and no other
\* operation, whatever its arguments (an index outside the pool, an acquire
\* on a pool of capacity 0), changes the length of either: from the first
\* resize on, slots and slotsUsage both have the length that was last set.
C15_LengthsAreCapacity ==
    [][/\ InitializeStep =>
              /\ extensionSettings'.slots.length = last'.index.n
              /\ extensionSettings'.slotsUsage.length = last'.index.n
       /\ (HasSlots(extensionSettings) /\ ~InitializeStep) =>
              /\ HasSlots(extensionSettings')
              /\ extensionSettings'.slots.length = extensionSettings.slots.length
              /\ extensionSettings'.slotsUsage.length
                    = extensionSettings.slotsUsage.length
       /\ HasSlots(extensionSettings') =>
              extensionSettings'.slots.length = extensionSettings'.slotsUsage.length]_vars

\* An occupied slot of a pool of capacity 2 has just been released while the
\* other slot stays occupied, and both arrays still have length 2.
C15_Witness ==
    /\ last.op = "releaseSlot"
    /\ last.index = Num(0)
    /\ last.err = ""
    /\ extensionSettings.slots.length = 2
    /\ extensionSettings.slotsUsage.length = 2
    /\ Occupant(extensionSettings, 0) = Undefined
    /\ Occupant(extensionSettings, 1).t = "string"

\* ------------------------------------------------------------------ C16
\* C16: every slot of the pool has a last-used timestamp exactly when it
\* holds a key.
C16_TimestampIffOccupied ==
    HasSlots(extensionSettings) =>
        \A i \in Indices(extensionSettings) :
            (LastUsed(extensionSettings, i) # Undefined)
                <=> (Occupant(extensionSettings, i) # Undefined)

\* ------------------------------------------------------------------ C17
\* C17: an acquire(k) that returns gives an index r of the pool, 0 <= r <
\* capacity, and afterwards slot r holds k with the time of this call as its
\* timestamp, whichever branch selected r.
C17_AcquirePostcondition ==
    [][AcquireStep =>
        /\ last'.ret.t = "number"
        /\ last'.ret.n \in Indices(extensionSettings')
        /\ Occupant(extensionSettings', last'.ret.n) = last'.key
        /\ LastUsed(extensionSettings', last'.ret.n) = Date(now')]_vars

\* ------------------------------------------------------------------ C18
\* C18: the pool exists, with capacity 0, from the start: while no resize
\* has run yet (a fresh install before the first ready event), an acquire, a
\* release(index) or a releaseAll completes without raising an error and
\* leaves a pool of capacity 0 behind, as the same call on a pool of
\* capacity 0 does.
C18_CallsBeforeReadyComplete ==
    [][(~HasSlots(extensionSettings)
            /\ last'.op \in {"acquireSlot", "releaseSlot", "releaseSlots"}) =>
        /\ last'.err = ""
        /\ HasSlots(extensionSettings')
        /\ Capacity(extensionSettings') = 0]_vars

\* ------------------------------------------------------------------ C19
\* The keys that hold a slot of the pool.
KeysHeld(es) == {Occupant(es, i) : i \in OccupiedSlots(es)}

\* C19: an acquire(k) that returns r changes at most one slot: every slot
\* other than r keeps its occupant and its timestamp, the capacity stays the
\* same, and at most one key that held a slot before holds none after.
C19_AcquireChangesOneSlot ==
    [][AcquireStep =>
        /\ Capacity(extensionSettings') = Capacity(extensionSettings)
        /\ extensionSettings'.slotsUsage.length = extensionSettings.slotsUsage.length
        /\ \A j \in Indices(extensionSettings) \ {last'.ret.n} :
              SameSlot(extensionSettings', extensionSettings, j)
        /\ Cardinality(KeysHeld(extensionSettings) \ KeysHeld(extensionSettings')) <= 1]_vars

\* An acquire on a full pool of capacity 2 has taken slot 0 from another key
\* and slot 1 still holds its key.
C19_Witness ==
    /\ last.op = "acquireSlot"
    /\ last.err = ""
    /\ last.ret = Num(0)
    /\ last.was.occupant.t = "string"
    /\ last.was.occupant # last.key
    /\ Capacity(extensionSettings) = 2
    /\ Occupant(extensionSettings, 0) = last.key
    /\ Occupant(extensionSettings, 1).t = "string"
    /\ LastUsed(extensionSettings, 1).t = "date"

\* ------------------------------------------------------------------ C20
\* C20: whenever the settings-ready event writes a slot index s into
\* id_slot, whatever releases and resizes came between the acquire and this
\* event, s is a slot of the pool, 0 <= s < capacity, and slot s is occupied
\* by the key that was passed to the most recent acquire.
C20_IdSlotNeverStale ==
    [][(SettingsReadyStep /\ currentSlot.t = "number") =>
        /\ params'.id_slot = currentSlot
        /\ currentSlot.n \in Indices(extensionSettings)
        /\ Occupant(extensionSettings, currentSlot.n) # Undefined
        /\ Occupant(extensionSettings, currentSlot.n) = acquiredKey]_vars

====
